---- MODULE Spec2Model ----
(***************************************************************************)
(* A model of the particle-in-cell core of IPPL (srikrrish/ippl):          *)
(*   - alpine/FieldSolver.hpp          the FieldSolver wrapper             *)
(*   - alpine/LandauDampingManager.h   the PIC driver (pre_run, leapfrog)  *)
(*   - src/FFT/FFT.hpp                 the heFFTe-backed FFT plans         *)
(*   - unit_tests/PIC/PIC.cpp          the scatter unit test               *)
(* Each component has its own specification over the shared variables:     *)
(*   SpecSolver  sequences of initSolver / runSolver calls                 *)
(*   SpecFFT     plan construction and transforms, all four kinds          *)
(*   SpecPIC     the manager: pre_run, then the time loop                  *)
(*   SpecScatter scatterCIC on bounded particle ensembles                  *)
(***************************************************************************)
EXTENDS Integers, Sequences, FiniteSets, TLC

VARIABLES
    fs,      \* FieldSolver object: stype_m, Dim (template parameter), solver_m
    fsObs,   \* what the last FieldSolver call did (error, log, solve, barrier)
    fsHist,  \* history of the FieldSolver calls made so far
    fftIn,   \* FFT: template parameters, layouts and build flag of the plan
    fft,     \* FFT object: heffte_m, staging buffers, workspace_m
    fftFld,  \* the field(s) handed to transform: f, and g for RC
    fftObs,  \* what the last FFT operation did (error, backend calls, accesses)
    pc,      \* manager: the statement the run has reached
    mgr,     \* manager: the members of LandauDampingManager
    layoutVer, \* manager: the field layout in force (counts the repartitions)
    nloc,    \* manager: the number of particles each rank holds
    data,    \* manager: which positions rho, E and the particles' E derive from
    trace,   \* manager: the phases of the leapfrog step under way
    picHist, \* manager: history of the run (calls made so far)
    scIn,    \* scatter: which program runs (the unit test or the manager) and its charge
    bunchR,  \* scatter: the particle positions
    rhoF,    \* scatter: the density field, ghost cells included
    scObs,   \* scatter: what the last operation did (the sum it took)
    lf,      \* leapfrog: one particle's R, P and E, the frozen field, dt
    lfObs,   \* leapfrog: the run made so far (direction, steps, start values)
    pl,      \* particle layout: the cells each rank owns, the particles it holds
    plObs,   \* particle layout: what the last operation did
    drv      \* driver: NP, the number of ranks, what each rank has created

fsVars == <<fs, fsObs, fsHist>>
fftVars == <<fftIn, fft, fftFld, fftObs>>
picVars == <<pc, mgr, layoutVer, nloc, data, trace, picHist>>
scVars == <<scIn, bunchR, rhoF, scObs>>

lfVars == <<lf, lfObs>>
plVars == <<pl, plObs>>
drvVars == <<drv>>

vars == <<fs, fsObs, fsHist, fftIn, fft, fftFld, fftObs,
          pc, mgr, layoutVer, nloc, data, trace, picHist,
          scIn, bunchR, rhoF, scObs, lf, lfObs, pl, plObs, drv>>

(***************************************************************************)
(* Bounds                                                                  *)
(***************************************************************************)
MaxSolverDim == 3
MaxCalls == 3
MaxFFTDim == 4
MaxTransforms == 2
MaxRanks == 2
MaxSteps == 2
NumParticles == 2
ScatterDim == 2
ScatterCells == 2
ScatterSub == 2
ScatterParticles == 2
ScatterSpacing == 2
MaxScatters == 2
LeapCells == 3
MaxLeapSteps == 2
MaxCommSize == 3
SizeModulus == 16

(***************************************************************************)
(* The components a specification does not exercise stay as they are.      *)
(***************************************************************************)
FSIdle ==
    /\ fs = [stype_m |-> "FFT", Dim |-> 3,
             solver_m |-> [index |-> "CG", init |-> FALSE, layout |-> 0]]
    /\ fsObs = [op |-> "none", err |-> "none", log |-> "none", solve |-> "none",
                barrier |-> FALSE]
    /\ fsHist = [calls |-> 0, initReturned |-> 0, initRaised |-> 0, solves |-> 0,
                 uninitSolves |-> 0, staleSolves |-> 0, solvedSincePlan |-> FALSE,
                 barriers |-> 0]

FFTIdle ==
    /\ fftIn = [kind |-> "none"]
    /\ fft = [heffte_m |-> [null |-> TRUE]]
    /\ fftFld = [f |-> "none"]
    /\ fftObs = [op |-> "none"]

PICIdle ==
    /\ pc = "none"
    /\ mgr = [solver |-> "none"]
    /\ layoutVer = 0
    /\ nloc = <<>>
    /\ data = [R |-> 0]
    /\ trace = <<>>
    /\ picHist = [updates |-> 0]

ScIdle ==
    /\ scIn = [prog |-> "none"]
    /\ bunchR = <<>>
    /\ rhoF = <<>>
    /\ scObs = [op |-> "none"]

LfIdle ==
    /\ lf = [R |-> 0]
    /\ lfObs = [phase |-> "none"]

PlIdle ==
    /\ pl = [layout |-> <<>>]
    /\ plObs = [op |-> "none"]

DrvIdle == drv = [NP |-> 0]

(***************************************************************************)
(* FieldSolver (alpine/FieldSolver.hpp)                                    *)
(***************************************************************************)

\* The alternatives of the variant Solver_t, in the order runSolver tests them.
SolverKinds == {"CG", "FFT", "P3M", "OPEN"}

\* Solver names a caller may pass to the constructor; "XX" stands for any
\* string that is none of the four.
SolverNames == SolverKinds \cup {"XX"}

SolverDims == 1..MaxSolverDim

\* FieldSolver(solver, rho, E): stype_m(solver); solver_m is default
\* constructed.  Which alternative a default constructed Solver_t holds is
\* fixed by its declaration, which the header does not show: alt ranges over
\* all of them.
FieldSolver(solver, dim, alt) ==
    [stype_m |-> solver, Dim |-> dim,
     solver_m |-> [index |-> alt, init |-> FALSE, layout |-> 0]]

NoCall == [op |-> "none", err |-> "none", log |-> "none", solve |-> "none",
           barrier |-> FALSE]

\* initSolverWithParams<Solver>: emplace the alternative, merge the
\* parameters, bind rho (setRhs) and E (setLhs): the solver is planned for the
\* layout the fields have at this moment.
initSolverWithParams(s, kind, layout) ==
    [s EXCEPT !.solver_m = [index |-> kind, init |-> TRUE, layout |-> layout]]

\* initFFTSolver: if constexpr (Dim == 2 || Dim == 3) ... else throw.
initFFTSolver(s, layout) ==
    IF s.Dim \in {2, 3}
    THEN [obj |-> initSolverWithParams(s, "FFT", layout), err |-> "none", log |-> "none"]
    ELSE [obj |-> s, err |-> "runtime_error", log |-> "none"]

\* initSolver: only "FFT" is initialised; the CG, P3M and OPEN branches are
\* commented out, so every other name falls into the else branch, which
\* writes a message and returns.
initSolver(s, layout) ==
    IF s.stype_m = "FFT"
    THEN initFFTSolver(s, layout)
    ELSE [obj |-> s, err |-> "none", log |-> "No solver matches the argument"]

\* std::get<K>(solver_m).solve(): std::get throws bad_variant_access when the
\* variant holds another alternative.  solve() on an alternative that was
\* never given its parameters and fields has no defined result: it may return
\* or bring the program down.
getAndSolve(s, kind, barrier) ==
    IF s.solver_m.index # kind
    THEN {[err |-> "bad_variant_access", solve |-> "none", barrier |-> FALSE]}
    ELSE IF s.solver_m.init
    THEN {[err |-> "none", solve |-> "planned", barrier |-> barrier]}
    ELSE {[err |-> "none", solve |-> "uninit", barrier |-> barrier],
          [err |-> "crash", solve |-> "uninit", barrier |-> FALSE]}

NoSolve == {[err |-> "none", solve |-> "none", barrier |-> FALSE]}

\* Faulty variant: runSolver whose last branch returns instead of throwing.
runSolver_UnknownReturns(s) ==
    IF s.stype_m = "CG" THEN getAndSolve(s, "CG", TRUE)
    ELSE IF s.stype_m = "FFT"
    THEN (IF s.Dim \in {2, 3} THEN getAndSolve(s, "FFT", FALSE) ELSE NoSolve)
    ELSE IF s.stype_m = "P3M"
    THEN (IF s.Dim = 3 THEN getAndSolve(s, "P3M", FALSE) ELSE NoSolve)
    ELSE IF s.stype_m = "OPEN"
    THEN (IF s.Dim = 3 THEN getAndSolve(s, "OPEN", FALSE) ELSE NoSolve)
    ELSE NoSolve

\* runSolver: the branch is chosen by stype_m; the FFT, P3M and OPEN branches
\* are compiled only for the dimensions they support (if constexpr) and are
\* empty otherwise; an unknown name throws.
runSolver(s) ==
    IF s.stype_m = "CG" THEN getAndSolve(s, "CG", TRUE)
    ELSE IF s.stype_m = "FFT"
    THEN (IF s.Dim \in {2, 3} THEN getAndSolve(s, "FFT", FALSE) ELSE NoSolve)
    ELSE IF s.stype_m = "P3M"
    THEN (IF s.Dim = 3 THEN getAndSolve(s, "P3M", FALSE) ELSE NoSolve)
    ELSE IF s.stype_m = "OPEN"
    THEN (IF s.Dim = 3 THEN getAndSolve(s, "OPEN", FALSE) ELSE NoSolve)
    ELSE {[err |-> "runtime_error", solve |-> "none", barrier |-> FALSE]}

\* History kept for the properties: not program state.
NoHist == [calls |-> 0, initReturned |-> 0, initRaised |-> 0, solves |-> 0,
           uninitSolves |-> 0, staleSolves |-> 0, solvedSincePlan |-> FALSE,
           barriers |-> 0]

HistAfterInit(h, r) ==
    [h EXCEPT !.calls = @ + 1,
              !.initReturned = IF r.err = "none" THEN @ + 1 ELSE @,
              !.initRaised = IF r.err # "none" THEN @ + 1 ELSE @,
              !.solvedSincePlan = IF r.err = "none" /\ r.obj.solver_m.init
                                     /\ r.log = "none"
                                  THEN FALSE ELSE @]

HistAfterRun(h, s, r, layout) ==
    [h EXCEPT !.calls = @ + 1,
              !.solves = IF r.solve # "none" THEN @ + 1 ELSE @,
              !.uninitSolves = IF r.solve = "uninit" THEN @ + 1 ELSE @,
              !.staleSolves = IF r.solve = "planned" /\ s.solver_m.layout # layout
                              THEN @ + 1 ELSE @,
              !.solvedSincePlan = IF r.solve = "planned" /\ r.err = "none"
                                  THEN TRUE ELSE @,
              !.barriers = IF r.barrier THEN @ + 1 ELSE @]

\* A caller invokes initSolver on the object.
FS_InitSolver ==
    /\ fsHist.calls < MaxCalls
    /\ LET r == initSolver(fs, 0) IN
        /\ fs' = r.obj
        /\ fsObs' = [op |-> "initSolver", err |-> r.err, log |-> r.log,
                     solve |-> "none", barrier |-> FALSE]
        /\ fsHist' = HistAfterInit(fsHist, r)
    /\ UNCHANGED <<fftVars, picVars, scVars, lfVars, plVars, drvVars>>

\* A caller invokes runSolver on the object.
FS_RunSolver ==
    /\ fsHist.calls < MaxCalls
    /\ \E r \in runSolver(fs) :
        /\ fs' = fs
        /\ fsObs' = [op |-> "runSolver", err |-> r.err, log |-> "none",
                     solve |-> r.solve, barrier |-> r.barrier]
        /\ fsHist' = HistAfterRun(fsHist, fs, r, 0)
    /\ UNCHANGED <<fftVars, picVars, scVars, lfVars, plVars, drvVars>>

InitSolverSpec ==
    /\ \E n \in SolverNames, d \in SolverDims, a \in SolverKinds :
            fs = FieldSolver(n, d, a)
    /\ fsObs = NoCall
    /\ fsHist = NoHist
    /\ FFTIdle
    /\ PICIdle
    /\ ScIdle
    /\ LfIdle
    /\ PlIdle
    /\ DrvIdle

NextSolver ==
    \/ FS_InitSolver
    \/ FS_RunSolver

SpecSolver == InitSolverSpec /\ [][NextSolver]_vars

\* The solver's place in the life cycle of the specification, section 4.5:
\* it is PLANNED when solver_m holds an initialised solver of the selected
\* type, planned for the layout in force; READY once that solver has solved.
FSState(s, h, layout) ==
    IF ~(s.solver_m.index = s.stype_m /\ s.solver_m.init /\ s.solver_m.layout = layout)
    THEN "UNINITIALIZED"
    ELSE IF h.solvedSincePlan THEN "READY" ELSE "PLANNED"

(***************************************************************************)
(* Claims about the FieldSolver                                            *)
(***************************************************************************)

\* C3: a FieldSolver is PLANNED once initSolver has returned, READY once
\* runSolver has solved after that, and no solve is ever performed on a
\* solver that is still UNINITIALIZED.
C3_Lifecycle ==
    /\ (fsObs.op = "initSolver" /\ fsObs.err = "none")
            => FSState(fs, fsHist, 0) = "PLANNED"
    /\ (fsHist.initReturned >= 1 /\ fsObs.op = "runSolver" /\ fsObs.err = "none")
            => FSState(fs, fsHist, 0) = "READY"
    /\ fsHist.uninitSolves = 0

\* C4: initSolver called with a name it cannot initialise raises an error at
\* that call, and an error of runSolver is never the first sign of it.
C4_ConfigErrorAtInit ==
    /\ (fsObs.op = "initSolver"
          /\ ~(fs.solver_m.index = fs.stype_m /\ fs.solver_m.init))
            => fsObs.err # "none"
    /\ (fsObs.op = "runSolver" /\ fsObs.err # "none" /\ fsHist.initReturned
            + fsHist.initRaised >= 1)
            => fsHist.initRaised >= 1

\* C18: for a solver selected in a dimension it does not support (P3M or OPEN
\* with Dim other than 3, FFT with Dim other than 2 and 3) both initSolver
\* and runSolver raise an error; neither returns normally.
C18_DimensionUnsupported ==
    (/\ fsObs.op \in {"initSolver", "runSolver"}
     /\ \/ fs.stype_m \in {"P3M", "OPEN"} /\ fs.Dim # 3
        \/ fs.stype_m = "FFT" /\ fs.Dim \notin {2, 3})
    => fsObs.err # "none"

\* C27: runSolver with a solver type that is none of "CG", "FFT", "P3M" and
\* "OPEN" throws a runtime error, solves nothing and does not enter the
\* barrier; the barrier is entered on the CG path only, after its solve.
C27_UnknownSolverThrows ==
    fsObs.op = "runSolver"
    => /\ fs.stype_m \notin SolverKinds
            => /\ fsObs.err = "runtime_error"
               /\ fsObs.solve = "none"
               /\ ~fsObs.barrier
       /\ fsObs.barrier
            => /\ fs.stype_m = "CG"
               /\ fsObs.solve # "none"
               /\ fsObs.err = "none"

C27_Witness ==
    /\ fsObs.op = "runSolver"
    /\ fs.stype_m = "XX"
    /\ fsObs.err = "runtime_error"
    /\ fsHist.calls = 2
    /\ fsHist.solves = 0 /\ fsHist.barriers = 0

(***************************************************************************)
(* FFT (src/FFT/FFT.hpp)                                                   *)
(***************************************************************************)

FFTKinds == {"CC", "RC", "Sine", "Cos"}

\* The values of the "comm" parameter: the four enumerators the switch in
\* setup names, and "other" for any value that is none of them.
CommTags == {"a2a", "a2av", "p2p", "p2p_pl", "other"}

\* The directions passed to transform: 1 forward, -1 backward, 0 for any
\* other integer.
Directions == {-1, 0, 1}

ParamLists ==
    [use_heffte_defaults : BOOLEAN, use_pencils : BOOLEAN, use_reorder : BOOLEAN,
     use_gpu_aware : BOOLEAN, comm : CommTags, r2c_direction : 0..2]

\* heffte::default_options<heffteBackend>().
DefaultOptions ==
    [use_pencils |-> TRUE, use_reorder |-> TRUE, use_gpu_aware |-> TRUE,
     algorithm |-> "alltoallv"]

\* Faulty variant: the switch without its throwing default branch.
commAlgorithm_NoDefault(comm) ==
    CASE comm = "a2a" -> "alltoall"
      [] comm = "a2av" -> "alltoallv"
      [] comm = "p2p" -> "p2p"
      [] comm = "p2p_pl" -> "p2p_plined"
      [] OTHER -> "alltoall"

\* The switch over params.get<int>("comm") in setup; "throw" is its default
\* branch.
commAlgorithm(comm) ==
    CASE comm = "a2a" -> "alltoall"
      [] comm = "a2av" -> "alltoallv"
      [] comm = "p2p" -> "p2p"
      [] comm = "p2p_pl" -> "p2p_plined"
      [] OTHER -> "throw"

\* Faulty variant: use_pencils is read before use_heffte_defaults is tested.
setupOptions_PencilsFirst(params, gpuBuild) ==
    IF params.use_heffte_defaults
    THEN [err |-> "none",
          options |-> [DefaultOptions EXCEPT !.use_pencils = params.use_pencils]]
    ELSE IF commAlgorithm(params.comm) = "throw"
    THEN [err |-> "IpplException", options |-> DefaultOptions]
    ELSE [err |-> "none",
          options |-> [use_pencils |-> params.use_pencils,
                       use_reorder |-> params.use_reorder,
                       use_gpu_aware |-> IF gpuBuild THEN params.use_gpu_aware
                                         ELSE DefaultOptions.use_gpu_aware,
                       algorithm |-> commAlgorithm(params.comm)]]

\* The first half of setup, the same text in all four specialisations: the
\* options start as heFFTe's defaults and are overwritten from the parameter
\* list only when use_heffte_defaults is false; use_gpu_aware is read only in
\* a build with Heffte_ENABLE_GPU.
setupOptions(params, gpuBuild) ==
    IF params.use_heffte_defaults
    THEN [err |-> "none", options |-> DefaultOptions]
    ELSE IF commAlgorithm(params.comm) = "throw"
    THEN [err |-> "IpplException", options |-> DefaultOptions]
    ELSE [err |-> "none",
          options |-> [use_pencils |-> params.use_pencils,
                       use_reorder |-> params.use_reorder,
                       use_gpu_aware |-> IF gpuBuild THEN params.use_gpu_aware
                                         ELSE DefaultOptions.use_gpu_aware,
                       algorithm |-> commAlgorithm(params.comm)]]

\* heffte_m before setup has assigned it: an empty shared_ptr.
NullPlan == [null |-> TRUE]

\* Number of cells of a heffte::box3d given by its low and high corners.
BoxCells(low, high) ==
    (high[0] - low[0] + 1) * (high[1] - low[1] + 1) * (high[2] - low[2] + 1)

\* heffte_m->size_workspace(): heFFTe's answer for the plan; it is taken here
\* as the cells of the two boxes.
size_workspace(plan) ==
    BoxCells(plan.inbox.low, plan.inbox.high) + BoxCells(plan.outbox.low, plan.outbox.high)

\* setup for CC, Sine and Cos: heffte::fft3d over inbox = outbox = {low, high}.
\* A throw in the switch leaves heffte_m empty.
setup(low, high, params, gpuBuild) ==
    LET o == setupOptions(params, gpuBuild) IN
    IF o.err # "none"
    THEN [err |-> o.err, heffte_m |-> NullPlan]
    ELSE [err |-> "none",
          heffte_m |-> [inbox |-> [low |-> low, high |-> high],
                        outbox |-> [low |-> low, high |-> high],
                        options |-> o.options, r2c_direction |-> -1]]

\* setup for RC: heffte::fft3d_r2c over the input and output boxes; the
\* r2c direction is read from the parameter list in every case.
setupRC(lowInput, highInput, lowOutput, highOutput, params, gpuBuild) ==
    LET o == setupOptions(params, gpuBuild) IN
    IF o.err # "none"
    THEN [err |-> o.err, heffte_m |-> NullPlan]
    ELSE [err |-> "none",
          heffte_m |-> [inbox |-> [low |-> lowInput, high |-> highInput],
                        outbox |-> [low |-> lowOutput, high |-> highOutput],
                        options |-> o.options,
                        r2c_direction |-> params.r2c_direction]]

\* NDIndex<Dim>::size(): the product of the Dim lengths.
RECURSIVE DomSize(_, _)
DomSize(lDom, n) ==
    IF n = 0 THEN 1 ELSE lDom[n - 1].length * DomSize(lDom, n - 1)

\* low.fill(0); high.fill(0); then the loop over d < Dim (boxWrites records
\* every axis written).
BoxLow(lDom, Dim) ==
    [d \in 0..2 |-> IF d < Dim THEN lDom[d].first ELSE 0]

BoxHigh(lDom, Dim) ==
    [d \in 0..2 |-> IF d < Dim THEN lDom[d].length + lDom[d].first - 1 ELSE 0]

\* The staging buffer after "if (tempField_m.size() < lDom.size())
\* Kokkos::realloc(tempField_m, lDom[0].length(), lDom[1].length(),
\* lDom[2].length())": tempField_m starts empty.
StagingExtent(lDom, Dim) ==
    IF 0 < DomSize(lDom, Dim)
    THEN [d \in 0..2 |-> lDom[d].length]
    ELSE [d \in 0..2 |-> 0]

\* The axes of the local domain the constructor reads.
DomainReads(lDom, Dim) ==
    (0..(Dim - 1)) \cup (IF 0 < DomSize(lDom, Dim) THEN 0..2 ELSE {})

Cells(ext) ==
    {<<i, j, k>> : i \in 0..(ext[0] - 1), j \in 0..(ext[1] - 1), k \in 0..(ext[2] - 1)}

\* The content of a cell is kept symbolically: the field it was read from,
\* the staging index it belongs to, and the backend calls applied to it.
Zero == [fld |-> "zero", at |-> <<0, 0, 0>>, hist |-> <<>>]

\* A freshly allocated staging buffer.
NewBuffer(ext) == [ext |-> ext, data |-> [c \in Cells(ext) |-> Zero]]

\* Faulty variant: the workspace is never reallocated.
GrowWorkspace_KeepsOld(size, plan) == size

\* The workspace after "if (workspace_m.size() < heffte_m->size_workspace())
\* workspace_m = workspace_t(heffte_m->size_workspace())".
GrowWorkspace(size, plan) ==
    IF size < size_workspace(plan) THEN size_workspace(plan) ELSE size

\* FFT<kind, Dim, T>::FFT(layout..., params): the box corners, the staging
\* buffers, then setup.  in and out are the local domains of the input and
\* the output layout (the same layout for CC, Sine and Cos).
\* The corners are std::array<long long, 3> and are handed to setup, whose
\* parameters are std::array<long long, Dim>: the constructor is well formed
\* for Dim = 3 only.  For any other Dim no object can be built ("ill-formed"),
\* and nothing of the body runs.
FFTConstructor(kind, Dim, in, out, params, gpuBuild) ==
    IF Dim # 3
    THEN [err |-> "ill-formed",
          heffte_m |-> NullPlan,
          tempField_m |-> NewBuffer([d \in 0..2 |-> 0]),
          tempFieldg_m |-> NewBuffer([d \in 0..2 |-> 0]),
          workspace_m |-> 0,
          boxWrites |-> {},
          domReads |-> {}]
    ELSE
    LET s == IF kind = "RC"
             THEN setupRC(BoxLow(in, Dim), BoxHigh(in, Dim),
                          BoxLow(out, Dim), BoxHigh(out, Dim), params, gpuBuild)
             ELSE setup(BoxLow(in, Dim), BoxHigh(in, Dim), params, gpuBuild)
    IN [err |-> s.err,
        heffte_m |-> s.heffte_m,
        tempField_m |-> NewBuffer(StagingExtent(in, Dim)),
        tempFieldg_m |-> IF kind = "RC" THEN NewBuffer(StagingExtent(out, Dim))
                         ELSE NewBuffer([d \in 0..2 |-> 0]),
        workspace_m |-> IF s.err = "none" THEN GrowWorkspace(0, s.heffte_m) ELSE 0,
        boxWrites |-> 0..(Dim - 1),
        domReads |-> DomainReads(in, Dim)
                        \cup (IF kind = "RC" THEN DomainReads(out, Dim) ELSE {})]

\* The branch on direction, the same text in each transform; the result is
\* the backend call made, or the throw of std::logic_error.
transformCC(direction) ==
    IF direction = 1 THEN [fn |-> "forward", scale |-> "full"]
    ELSE IF direction = -1 THEN [fn |-> "backward", scale |-> "none"]
    ELSE [fn |-> "throw", scale |-> "none"]

\* Faulty variant: the backward transform scaled like the forward one.
transformRC_ScaledBackward(direction) ==
    IF direction = 1 THEN [fn |-> "forward", scale |-> "full"]
    ELSE IF direction = -1 THEN [fn |-> "backward", scale |-> "full"]
    ELSE [fn |-> "throw", scale |-> "none"]

transformRC(direction) ==
    IF direction = 1 THEN [fn |-> "forward", scale |-> "full"]
    ELSE IF direction = -1 THEN [fn |-> "backward", scale |-> "none"]
    ELSE [fn |-> "throw", scale |-> "none"]

transformSine(direction) ==
    IF direction = 1 THEN [fn |-> "forward", scale |-> "full"]
    ELSE IF direction = -1 THEN [fn |-> "backward", scale |-> "none"]
    ELSE [fn |-> "throw", scale |-> "none"]

\* Faulty variant: every direction other than 1 taken as backward.
transformCos_ElseBackward(direction) ==
    IF direction = 1 THEN [fn |-> "forward", scale |-> "full"]
    ELSE [fn |-> "backward", scale |-> "none"]

transformCos(direction) ==
    IF direction = 1 THEN [fn |-> "forward", scale |-> "full"]
    ELSE IF direction = -1 THEN [fn |-> "backward", scale |-> "none"]
    ELSE [fn |-> "throw", scale |-> "none"]

backendCall(kind, direction) ==
    CASE kind = "CC" -> transformCC(direction)
      [] kind = "RC" -> transformRC(direction)
      [] kind = "Sine" -> transformSine(direction)
      [] kind = "Cos" -> transformCos(direction)

\* A field on a layout: the local domain expanded by nghost cells on each
\* side of each axis.  Every cell starts with a content of its own.
FieldExtent(lDom, nghost) == [d \in 0..2 |-> lDom[d].length + 2 * nghost]

NewField(name, lDom, nghost) ==
    [nghost |-> nghost, ext |-> FieldExtent(lDom, nghost),
     data |-> [c \in Cells(FieldExtent(lDom, nghost)) |->
                 [fld |-> name,
                  at |-> <<c[1] - nghost, c[2] - nghost, c[3] - nghost>>,
                  hist |-> <<>>]]]

\* The range of the copy kernels: mdrange_type({nghost, nghost, nghost},
\* {extent(0) - nghost, extent(1) - nghost, extent(2) - nghost}).
InCopyRange(f, c) ==
    \A d \in 1..3 : f.nghost <= c[d] /\ c[d] < f.ext[d - 1] - f.nghost

\* Faulty variant: the copy-in kernel without the ghost offset,
\* tempField(i, j, k) = fview(i, j, k).
CopyIn_NoOffset(temp, f) ==
    [temp EXCEPT !.data =
        [s \in DOMAIN temp.data |->
            IF InCopyRange(f, s) THEN f.data[s] ELSE temp.data[s]]]

\* "copy from Kokkos FFT": tempField(i-nghost, j-nghost, k-nghost) = fview(i, j, k).
CopyIn(temp, f) ==
    [temp EXCEPT !.data =
        [s \in DOMAIN temp.data |->
            LET c == <<s[1] + f.nghost, s[2] + f.nghost, s[3] + f.nghost>> IN
            IF InCopyRange(f, c) THEN f.data[c] ELSE temp.data[s]]]

\* Faulty variant: the copy-out kernel over the range starting at 0,
\* fview(i, j, k) = tempField(i, j, k).
CopyOut_FromZero(f, temp) ==
    [f EXCEPT !.data =
        [c \in DOMAIN f.data |->
            IF c \in DOMAIN temp.data THEN temp.data[c] ELSE f.data[c]]]

\* "copy to Kokkos FFT": fview(i, j, k) = tempField(i-nghost, j-nghost, k-nghost).
CopyOut(f, temp) ==
    [f EXCEPT !.data =
        [c \in DOMAIN f.data |->
            IF InCopyRange(f, c)
            THEN temp.data[<<c[1] - f.nghost, c[2] - f.nghost, c[3] - f.nghost>>]
            ELSE f.data[c]]]

\* heFFTe's transforms, as far as the wrapper relies on them: a forward
\* transform scaled in full and an unscaled backward transform undo each
\* other; any other sequence of calls is kept as it is.
Cancels(a, b) ==
    \/ a = [fn |-> "forward", scale |-> "full"] /\ b = [fn |-> "backward", scale |-> "none"]
    \/ a = [fn |-> "backward", scale |-> "none"] /\ b = [fn |-> "forward", scale |-> "full"]

ApplyCall(hist, call) ==
    IF hist # <<>> /\ Cancels(hist[Len(hist)], call)
    THEN SubSeq(hist, 1, Len(hist) - 1)
    ELSE Append(hist, call)

\* A buffer holds one field's data in place when every cell carries that
\* field's content for its own index, with one history.
Coherent(buf) ==
    /\ DOMAIN buf.data # {}
    /\ LET s0 == CHOOSE s \in DOMAIN buf.data : TRUE IN
        \A s \in DOMAIN buf.data :
            /\ buf.data[s].at = s
            /\ buf.data[s].fld = buf.data[s0].fld
            /\ buf.data[s].hist = buf.data[s0].hist

\* heffte_m->forward / backward from buffer src into buffer dst (src = dst
\* for the in-place kinds).
Backend(src, dst, call) ==
    IF DOMAIN dst.data = {} THEN dst
    ELSE IF Coherent(src)
    THEN LET s0 == CHOOSE s \in DOMAIN src.data : TRUE
             fld == src.data[s0].fld
             hist == ApplyCall(src.data[s0].hist, call)
         IN [dst EXCEPT !.data =
                [s \in DOMAIN dst.data |-> [fld |-> fld, at |-> s, hist |-> hist]]]
    ELSE [dst EXCEPT !.data =
            [s \in DOMAIN dst.data |-> [fld |-> "mixed", at |-> s, hist |-> <<call>>]]]

\* The statements of a transform that launch work, in program order: the
\* copy-in kernels (one per field), the backend call, the copy-out kernels.
\* A Kokkos::fence() between them would appear as "fence"; the four wrapped
\* transforms contain none.  A throw leaves after the copy-in kernels.
transformSteps(kind, call) ==
    LET copies == IF kind = "RC" THEN <<"kernel", "kernel">> ELSE <<"kernel">> IN
    IF call.fn = "throw" THEN copies
    ELSE copies \o <<call.fn>> \o copies

\* Faulty variant: the direction is tested after the work; for a direction
\* that is neither 1 nor -1 a forward transform is made and copied out, and
\* then the error is raised.
transformInPlace_ThrowAfterCopyOut(obj, kind, direction, f) ==
    LET call == backendCall(kind, direction)
        t1 == CopyIn(obj.tempField_m, f)
        t2 == IF call.fn = "throw"
              THEN Backend(t1, t1, [fn |-> "forward", scale |-> "full"])
              ELSE Backend(t1, t1, call)
    IN [obj |-> [obj EXCEPT !.tempField_m = t2],
        f |-> CopyOut(f, t2),
        err |-> IF call.fn = "throw" THEN "logic_error" ELSE "none",
        calls |-> IF call.fn = "throw" THEN <<>> ELSE <<call>>,
        steps |-> transformSteps(kind, call)]

\* FFT<CC|Sine|Cos>::transform(direction, f): copy in, the backend call
\* chosen by direction, copy out.  A throw leaves the function before the
\* copy out.
transformInPlace(obj, kind, direction, f) ==
    LET call == backendCall(kind, direction)
        t1 == CopyIn(obj.tempField_m, f)
        t2 == IF call.fn = "throw" THEN t1 ELSE Backend(t1, t1, call)
    IN [obj |-> [obj EXCEPT !.tempField_m = t2],
        f |-> IF call.fn = "throw" THEN f ELSE CopyOut(f, t2),
        err |-> IF call.fn = "throw" THEN "logic_error" ELSE "none",
        calls |-> IF call.fn = "throw" THEN <<>> ELSE <<call>>,
        steps |-> transformSteps(kind, call)]

\* FFT<RC>::transform(direction, f, g): both fields are copied in; forward
\* goes from the real buffer to the complex one, backward the other way;
\* both fields are copied out.
transformR2C(obj, direction, f, g) ==
    LET call == backendCall("RC", direction)
        tf1 == CopyIn(obj.tempField_m, f)
        tg1 == CopyIn(obj.tempFieldg_m, g)
        tf2 == IF call.fn = "backward" THEN Backend(tg1, tf1, call) ELSE tf1
        tg2 == IF call.fn = "forward" THEN Backend(tf1, tg1, call) ELSE tg1
    IN [obj |-> [obj EXCEPT !.tempField_m = tf2, !.tempFieldg_m = tg2],
        f |-> IF call.fn = "throw" THEN f ELSE CopyOut(f, tf2),
        g |-> IF call.fn = "throw" THEN g ELSE CopyOut(g, tg2),
        err |-> IF call.fn = "throw" THEN "logic_error" ELSE "none",
        calls |-> IF call.fn = "throw" THEN <<>> ELSE <<call>>,
        steps |-> transformSteps("RC", call)]

\* The local domain of the layouts the plans are built on: axis d starts at
\* d + 1; the lengths differ by axis.
LocalDomain(Dim) ==
    [d \in 0..(Dim - 1) |->
        [first |-> d + 1, length |-> IF d = 0 THEN 3 ELSE IF d = 1 THEN 1 ELSE 2]]

\* The output layout of an RC plan: the first axis holds half of the input's
\* cells plus one.
OutputDomain(Dim) ==
    [d \in 0..(Dim - 1) |->
        IF d = 0 THEN [first |-> 1, length |-> (LocalDomain(Dim)[0].length \div 2) + 1]
        ELSE LocalDomain(Dim)[d]]

\* Ghost widths of the fields handed to transform.
GhostWidths == {0, 1}

\* An FFT object is constructed from a layout and a parameter list.
FFT_Construct ==
    /\ fftObs.op = "none"
    /\ \E params \in ParamLists :
        LET r == FFTConstructor(fftIn.kind, fftIn.Dim, fftIn.in, fftIn.out,
                                params, fftIn.gpuBuild)
        IN
        /\ fft' = [heffte_m |-> r.heffte_m, tempField_m |-> r.tempField_m,
                   tempFieldg_m |-> r.tempFieldg_m, workspace_m |-> r.workspace_m]
        /\ fftObs' = [op |-> "construct",
                      err |-> r.err,
                      calls |-> <<>>, boxWrites |-> r.boxWrites,
                      domReads |-> r.domReads, params |-> params,
                      direction |-> 0, prev |-> 0, steps |-> <<>>, n |-> 0]
    /\ UNCHANGED <<fftIn, fftFld>>
    /\ UNCHANGED <<fsVars, picVars, scVars, lfVars, plVars, drvVars>>

\* No field has been handed to transform yet.
NoFields == [f |-> NewBuffer([d \in 0..2 |-> 0]), g |-> NewBuffer([d \in 0..2 |-> 0])]

\* The fields of a call of transform: the first call is given fields on the
\* plan's layouts, of some ghost width; the later calls the same fields.
FieldArguments ==
    IF fftFld = NoFields
    THEN {[f |-> NewField("f", fftIn.in, nghost),
           g |-> IF fftIn.kind = "RC" THEN NewField("g", fftIn.out, nghost)
                 ELSE NewBuffer([d \in 0..2 |-> 0])] : nghost \in GhostWidths}
    ELSE {fftFld}

\* transform is called on a plan that was built; the wrapper indexes its
\* views with three indices, so the fields are three-dimensional.
FFT_Transform ==
    /\ fftObs.op # "none"
    /\ fft.heffte_m # NullPlan
    /\ fftIn.Dim = 3
    /\ fftObs.n < MaxTransforms
    /\ \E direction \in Directions, flds \in FieldArguments :
        IF fftIn.kind = "RC"
        THEN LET r == transformR2C(fft, direction, flds.f, flds.g) IN
             /\ fft' = r.obj
             /\ fftFld' = [f |-> r.f, g |-> r.g]
             /\ fftObs' = [fftObs EXCEPT !.op = "transform", !.err = r.err,
                                         !.calls = r.calls, !.direction = direction,
                                         !.prev = fftObs.direction,
                                         !.steps = r.steps,
                                         !.n = @ + 1]
        ELSE LET r == transformInPlace(fft, fftIn.kind, direction, flds.f) IN
             /\ fft' = r.obj
             /\ fftFld' = [flds EXCEPT !.f = r.f]
             /\ fftObs' = [fftObs EXCEPT !.op = "transform", !.err = r.err,
                                         !.calls = r.calls, !.direction = direction,
                                         !.prev = fftObs.direction,
                                         !.steps = r.steps,
                                         !.n = @ + 1]
    /\ UNCHANGED fftIn
    /\ UNCHANGED <<fsVars, picVars, scVars, lfVars, plVars, drvVars>>

\* Before construction: the template parameters, the layouts and the fields
\* exist; the members of the object are default constructed.
InitFFT ==
    /\ \E kind \in FFTKinds, Dim \in 1..MaxFFTDim, gpuBuild \in BOOLEAN :
        fftIn = [kind |-> kind, Dim |-> Dim, in |-> LocalDomain(Dim),
                 out |-> IF kind = "RC" THEN OutputDomain(Dim) ELSE LocalDomain(Dim),
                 gpuBuild |-> gpuBuild]
    /\ fftFld = NoFields
    /\ fft = [heffte_m |-> NullPlan, tempField_m |-> NewBuffer([d \in 0..2 |-> 0]),
              tempFieldg_m |-> NewBuffer([d \in 0..2 |-> 0]), workspace_m |-> 0]
    /\ fftObs = [op |-> "none", err |-> "none", calls |-> <<>>, boxWrites |-> {},
                 domReads |-> {}, params |-> CHOOSE p \in ParamLists : TRUE,
                 direction |-> 0, prev |-> 0, steps |-> <<>>, n |-> 0]
    /\ FSIdle
    /\ PICIdle
    /\ ScIdle
    /\ LfIdle
    /\ PlIdle
    /\ DrvIdle

NextFFT ==
    \/ FFT_Construct
    \/ FFT_Transform

SpecFFT == InitFFT /\ [][NextFFT]_vars

(***************************************************************************)
(* Claims about the FFT plans                                              *)
(***************************************************************************)

\* C6: for every transform kind, a direction other than +1 and -1 makes
\* transform fail without any backend call; +1 makes exactly one call, the
\* forward transform, and -1 exactly one, the backward transform.
C6_DirectionDispatch ==
    fftObs.op = "transform" =>
        /\ fftObs.direction = 1 =>
                fftObs.err = "none" /\ Len(fftObs.calls) = 1
                    /\ fftObs.calls[1].fn = "forward"
        /\ fftObs.direction = -1 =>
                fftObs.err = "none" /\ Len(fftObs.calls) = 1
                    /\ fftObs.calls[1].fn = "backward"
        /\ fftObs.direction \notin {1, -1} =>
                fftObs.err = "logic_error" /\ fftObs.calls = <<>>

C6_Witness ==
    /\ fftObs.op = "transform" /\ fftIn.kind = "Sine"
    /\ fftObs.direction = 0 /\ fftObs.err = "logic_error"

\* C7: with use_heffte_defaults false, a comm value outside the four
\* enumerators makes setup fail and leaves no backend plan; each of the four
\* selects its reshape algorithm.
C7_CommSelection ==
    (fftObs.op # "none" /\ fftObs.err # "ill-formed" /\ ~fftObs.params.use_heffte_defaults) =>
        IF fftObs.params.comm \notin {"a2a", "a2av", "p2p", "p2p_pl"}
        THEN fft.heffte_m = NullPlan
                /\ (fftObs.op = "construct" => fftObs.err = "IpplException")
        ELSE /\ fft.heffte_m # NullPlan
             /\ fft.heffte_m.options.algorithm =
                    (CASE fftObs.params.comm = "a2a" -> "alltoall"
                       [] fftObs.params.comm = "a2av" -> "alltoallv"
                       [] fftObs.params.comm = "p2p" -> "p2p"
                       [] fftObs.params.comm = "p2p_pl" -> "p2p_plined")

C7_Witness ==
    /\ fftObs.op = "construct" /\ fftIn.kind = "RC"
    /\ ~fftObs.params.use_heffte_defaults /\ fftObs.params.comm = "other"
    /\ fftObs.err = "IpplException" /\ fft.heffte_m = NullPlan

\* The plan setup builds for the plan's kind and layouts from a parameter list.
PlanFor(params) ==
    IF fftIn.kind = "RC"
    THEN setupRC(BoxLow(fftIn.in, fftIn.Dim), BoxHigh(fftIn.in, fftIn.Dim),
                 BoxLow(fftIn.out, fftIn.Dim), BoxHigh(fftIn.out, fftIn.Dim),
                 params, fftIn.gpuBuild)
    ELSE setup(BoxLow(fftIn.in, fftIn.Dim), BoxHigh(fftIn.in, fftIn.Dim),
               params, fftIn.gpuBuild)

\* C8 as stated: with use_heffte_defaults true the plan is the same whatever
\* the other keys hold, for every kind, and no comm value raises an error.
C8_DefaultsIgnoreEveryKey ==
    (fftObs.op = "construct" /\ fftObs.err # "ill-formed" /\ fftObs.params.use_heffte_defaults) =>
        /\ fftObs.err = "none"
        /\ \A p \in ParamLists :
            p.use_heffte_defaults => PlanFor(p).heffte_m = fft.heffte_m

\* C8 as amended: with use_heffte_defaults true the options of the plan are
\* heFFTe's defaults whatever use_pencils, use_reorder, use_gpu_aware and
\* comm hold, and no comm value raises an error; the RC plan alone still
\* takes its r2c direction from the parameter list.
C8_DefaultsIgnoreOptionKeys ==
    (fftObs.op = "construct" /\ fftObs.err # "ill-formed" /\ fftObs.params.use_heffte_defaults) =>
        /\ fftObs.err = "none"
        /\ fft.heffte_m.options = DefaultOptions
        /\ fft.heffte_m.r2c_direction =
                (IF fftIn.kind = "RC" THEN fftObs.params.r2c_direction ELSE -1)
        /\ \A p \in ParamLists :
            (p.use_heffte_defaults
                /\ (fftIn.kind = "RC" => p.r2c_direction = fftObs.params.r2c_direction))
            => PlanFor(p).heffte_m = fft.heffte_m

C8_Witness ==
    /\ fftObs.op = "construct" /\ fftObs.err = "none"
    /\ fftObs.params.use_heffte_defaults /\ fftObs.params.comm = "other"
    /\ ~fftObs.params.use_pencils /\ fftIn.kind = "CC"

\* C9: a plan for Dim > 3 is refused before a corner of the box is written
\* or a staging buffer allocated (a refusal by the compiler counts as the
\* refusal); a plan for Dim <= 3 is not refused on account of its dimension,
\* the axes d >= Dim of its box are [0, 0] and the local domain is read on
\* the axes d < Dim only.
C9_DimensionGuard ==
    fftObs.op # "none" =>
        IF fftIn.Dim > 3
        THEN /\ fftObs.err \in {"UNSUPPORTED_DIM", "ill-formed"}
             /\ fftObs.boxWrites = {}
             /\ DOMAIN fft.tempField_m.data = {}
        ELSE /\ fftObs.err # "ill-formed"
             /\ fft.heffte_m # NullPlan =>
                    \A d \in 0..2 : d >= fftIn.Dim =>
                        /\ fft.heffte_m.inbox.low[d] = 0
                        /\ fft.heffte_m.inbox.high[d] = 0
             /\ fftObs.domReads \subseteq 0..(fftIn.Dim - 1)

\* C10: the forward transform is called with full scaling and the backward
\* transform with none, in every kind.
C10_Scaling ==
    fftObs.op = "transform" =>
        /\ \A i \in 1..Len(fftObs.calls) :
            /\ fftObs.calls[i].fn = "forward" => fftObs.calls[i].scale = "full"
            /\ fftObs.calls[i].fn = "backward" => fftObs.calls[i].scale = "none"
        /\ fftObs.direction = 1 =>
                \E i \in 1..Len(fftObs.calls) : fftObs.calls[i].scale = "full"

C10_Witness ==
    /\ fftObs.op = "transform" /\ fftIn.kind = "CC" /\ fftObs.direction = -1
    /\ fftObs.calls = <<[fn |-> "backward", scale |-> "none"]>>


\* C11: on one plan, a forward transform followed by a backward transform
\* of the same field restores every cell of the field, and so does backward
\* followed by forward; for the RC kind forward from f into g followed by
\* backward from g restores f (and backward followed by forward restores g).
C11_RoundTrip ==
    (fftObs.op = "transform" /\ fftObs.n = 2 /\ fftObs.direction \in {1, -1}
        /\ fftObs.prev = -fftObs.direction)
    => IF fftIn.kind # "RC"
       THEN fftFld.f = NewField("f", fftIn.in, fftFld.f.nghost)
       ELSE IF fftObs.direction = -1
       THEN fftFld.f = NewField("f", fftIn.in, fftFld.f.nghost)
       ELSE fftFld.g = NewField("g", fftIn.out, fftFld.g.nghost)

C11_Witness ==
    /\ fftObs.op = "transform" /\ fftObs.n = 2 /\ fftIn.kind = "RC"
    /\ fftObs.prev = 1 /\ fftObs.direction = -1
    /\ fftFld.f.nghost = 1
    /\ fftFld.f = NewField("f", fftIn.in, 1)
    /\ fftFld.g # NewField("g", fftIn.out, 1)

\* C12: a transform writes only the interior cells of its fields, the cells
\* [nghost, extent - nghost) on each axis; interior cell (i, j, k) holds what
\* staging cell (i - nghost, j - nghost, k - nghost) held, the staging cells
\* hold interior content only, and every ghost cell keeps its value.
C12_InteriorOnly ==
    fftObs.op = "transform" =>
        /\ \A c \in DOMAIN fftFld.f.data :
            IF InCopyRange(fftFld.f, c)
            THEN fftFld.f.data[c].at =
                    <<c[1] - fftFld.f.nghost, c[2] - fftFld.f.nghost, c[3] - fftFld.f.nghost>>
            ELSE fftFld.f.data[c] = NewField("f", fftIn.in, fftFld.f.nghost).data[c]
        /\ \A c \in DOMAIN fftFld.g.data :
            IF InCopyRange(fftFld.g, c)
            THEN fftFld.g.data[c].at =
                    <<c[1] - fftFld.g.nghost, c[2] - fftFld.g.nghost, c[3] - fftFld.g.nghost>>
            ELSE fftFld.g.data[c] = NewField("g", fftIn.out, fftFld.g.nghost).data[c]
        /\ \A s \in DOMAIN fft.tempField_m.data :
                fft.tempField_m.data[s].at = s /\ fft.tempField_m.data[s].fld # "mixed"
        /\ \A s \in DOMAIN fft.tempFieldg_m.data :
                fft.tempFieldg_m.data[s].at = s /\ fft.tempFieldg_m.data[s].fld # "mixed"

C12_Witness ==
    /\ fftObs.op = "transform" /\ fftObs.err = "none" /\ fftIn.kind = "CC"
    /\ fftFld.f.nghost = 1 /\ fftObs.n = 1
    /\ \E c \in DOMAIN fftFld.f.data :
            InCopyRange(fftFld.f, c) /\ fftFld.f.data[c].hist # <<>>
    /\ \E c \in DOMAIN fftFld.f.data : ~InCopyRange(fftFld.f, c)

BufferSize(buf) == Cardinality(DOMAIN buf.data)

\* C13: the staging buffers and the workspace of a plan never shrink, and at
\* every transform the staging buffers hold at least the cells of the local
\* domains and the workspace at least what the backend plan asks for.
C13_BuffersOnlyGrow ==
    [][/\ BufferSize(fft'.tempField_m) >= BufferSize(fft.tempField_m)
       /\ BufferSize(fft'.tempFieldg_m) >= BufferSize(fft.tempFieldg_m)
       /\ fft'.workspace_m >= fft.workspace_m
       /\ fftObs'.op = "transform" =>
            /\ BufferSize(fft'.tempField_m) >= DomSize(fftIn'.in, fftIn'.Dim)
            /\ fftIn'.kind = "RC" =>
                    BufferSize(fft'.tempFieldg_m) >= DomSize(fftIn'.out, fftIn'.Dim)
            /\ fft'.workspace_m >= size_workspace(fft'.heffte_m)]_vars

C13_Witness ==
    /\ fftObs.op = "transform" /\ fftObs.n = 2 /\ fftIn.kind = "RC"
    /\ BufferSize(fft.tempField_m) = DomSize(fftIn.in, 3)
    /\ BufferSize(fft.tempFieldg_m) = DomSize(fftIn.out, 3)
    /\ fft.workspace_m = size_workspace(fft.heffte_m)
    /\ fft.workspace_m > 0

\* C14: in a transform a fence stands between the copy-in kernels and the
\* backend call, and between the backend call and the copy-out kernels.
C14_FenceBeforeCollective ==
    (fftObs.op = "transform" /\ fftObs.err = "none")
    => \A i \in 1..Len(fftObs.steps) :
        fftObs.steps[i] \in {"forward", "backward"}
        => /\ i > 1 /\ fftObs.steps[i - 1] = "fence"
           /\ i < Len(fftObs.steps) /\ fftObs.steps[i + 1] = "fence"

\* C25: a transform called with a direction that is neither 1 nor -1 leaves
\* the field (both fields for RC) as it was handed in; of the plan only the
\* staging buffers may change.
C25_InvalidDirectionKeepsField ==
    [][(fftObs'.op = "transform" /\ fftObs'.err = "logic_error")
        => /\ fftFld' \in FieldArguments
           /\ fft'.heffte_m = fft.heffte_m
           /\ fft'.workspace_m = fft.workspace_m]_vars

C25_Witness ==
    /\ fftObs.op = "transform" /\ fftObs.err = "logic_error"
    /\ fftObs.n = 2 /\ fftObs.prev = 1
    /\ fftIn.kind = "RC"
    /\ fftFld.f.nghost = 1
    /\ \E c \in DOMAIN fftFld.g.data : fftFld.g.data[c].hist # <<>>
    /\ \E s0 \in DOMAIN fft.tempFieldg_m.data :
            fft.tempFieldg_m.data[s0].hist # <<>>

(***************************************************************************)
(* LandauDampingManager (alpine/LandauDampingManager.h)                    *)
(***************************************************************************)

\* Load-balance thresholds, in tenths: 1.0 and 1.5.
Thresholds == {10, 15}

\* step_method is "LeapFrog" after construction; it is a public member, so a
\* driver may store another name.
StepMethods == {"LeapFrog", "other"}

\* All the ways n particles can sit on k ranks.
Ranks == 1..MaxRanks

RECURSIVE Spread(_, _)
Spread(n, k) ==
    IF k = 0
    THEN (IF n = 0 THEN {<<>>} ELSE {})
    ELSE UNION {{Append(l, m) : l \in Spread(n - m, k - 1)} : m \in 0..n}

MaxLoad(load) ==
    CHOOSE m \in {load[r] : r \in DOMAIN load} : \A r \in DOMAIN load : load[r] <= m

\* LoadBalancer::balance(totalP, nstep): L_max / L_mean > threshold, and never
\* with the threshold 1.0.
balance(lb, totalP, nstep, load) ==
    /\ lb.threshold # 10
    /\ MaxLoad(load) * Len(load) * 10 > lb.threshold * totalP

\* LoadBalancer::repartition(FL, mesh, isFirstRepartition): a new layout is
\* published and the fields and the particles migrate to it.
repartition(layout) == layout + 1

\* What a field holds: zero, the sampling pdf, or the density of the
\* positions R had at version R.
FieldZero == [of |-> "zero", R |-> 0]
FieldPdf == [of |-> "pdf", R |-> 0]
NoE == [set |-> FALSE, of |-> "zero", R |-> 0]

NoData == [R |-> 0, created |-> FALSE, rho |-> FieldZero, Ef |-> NoE, Ep |-> NoE]

NoPicHist == [err |-> "none", steps |-> 0, updates |-> 0, repartitions |-> 0,
              scatters |-> 0, gathers |-> 0, balanced |-> FALSE,
              updatesAtFirstScatter |-> 0,
              time0 |-> 0, dumps |-> <<>>, nstep |-> 0]

\* par2grid (scatterCIC), as the time loop sees it: rho is cleared and then
\* holds the density of the current positions.
par2grid(d) == [d EXCEPT !.rho = [of |-> "density", R |-> d.R]]

\* grid2par (gatherCIC): gather(E_p, E_f, R).
grid2par(d) == [d EXCEPT !.Ep = d.Ef]

\* The effect of solve() on the field E: a planned solver writes the field of
\* the rho it is bound to; otherwise E keeps what it held.
solveField(d, r) ==
    IF r.solve = "planned"
    THEN [d EXCEPT !.Ef = [set |-> TRUE, of |-> d.rho.of, R |-> d.rho.R]]
    ELSE d

\* fsolver_m->runSolver() at a call site of the manager: an exception leaves
\* the run.
ManagerRunSolver(next) ==
    \E r \in runSolver(fs) :
        /\ fs' = fs
        /\ fsObs' = [op |-> "runSolver", err |-> r.err, log |-> "none",
                     solve |-> r.solve, barrier |-> r.barrier]
        /\ fsHist' = HistAfterRun(fsHist, fs, r, layoutVer)
        /\ IF r.err = "none"
           THEN /\ pc' = next
                /\ picHist' = picHist
           ELSE /\ pc' = "aborted"
                /\ picHist' = [picHist EXCEPT !.err = r.err]
        /\ data' = solveField(data, r)

\* Faulty variant: pre_run without the test on the solver name.
PIC_PreRunSetup_NoOpenCheck ==
    /\ pc = "constructed"
    /\ mgr' = [mgr EXCEPT !.it = 0, !.isAllPeriodic = TRUE]
    /\ pc' = "pre_run_create"
    /\ picHist' = picHist
    /\ UNCHANGED <<layoutVer, nloc, data, trace, fsVars, fftVars, scVars, lfVars, plVars, drvVars>>

\* pre_run, lines 88-120: domain, decomposition and physical parameters, it = 0,
\* mesh and layouts; the OPEN solver is rejected before anything is created.
PIC_PreRunSetup ==
    /\ pc = "constructed"
    /\ mgr' = [mgr EXCEPT !.it = 0, !.isAllPeriodic = TRUE]
    /\ IF mgr.solver = "OPEN"
       THEN /\ pc' = "aborted"
            /\ picHist' = [picHist EXCEPT !.err = "IpplException"]
       ELSE /\ pc' = "pre_run_create"
            /\ picHist' = picHist
    /\ UNCHANGED <<layoutVer, nloc, data, trace, fsVars, fftVars, scVars, lfVars, plVars, drvVars>>

\* pre_run, lines 122-133: the containers, the field solver (constructed and
\* initSolver called) and the load balancer (given lbt) are created.
PIC_PreRunCreate ==
    /\ pc = "pre_run_create"
    /\ \E alt \in SolverKinds :
        LET r == initSolver(FieldSolver(mgr.solver, 3, alt), layoutVer) IN
        /\ fs' = r.obj
        /\ fsObs' = [op |-> "initSolver", err |-> r.err, log |-> r.log,
                     solve |-> "none", barrier |-> FALSE]
        /\ fsHist' = HistAfterInit(fsHist, r)
    /\ mgr' = [mgr EXCEPT !.created = {"pcontainer", "fcontainer", "fsolver",
                                       "loadbalancer"},
                          !.loadbalancer = [threshold |-> mgr.lbt]]
    /\ pc' = "pre_run_particles"
    /\ UNCHANGED <<layoutVer, nloc, data, trace, picHist, fftVars, scVars, lfVars, plVars, drvVars>>


\* initializeParticles (line 135, body 144-219): with a threshold other than
\* 1.0 and more than one rank, rho is set to the pdf and the layout is
\* repartitioned; then every rank creates its share of the totalP particles
\* and the charge per particle is set.
PIC_InitializeParticles ==
    /\ pc = "pre_run_particles"
    /\ LET first == mgr.loadbalancethreshold_m # 10 /\ mgr.ranks > 1 IN
        /\ mgr' = [mgr EXCEPT !.isFirstRepartition = IF first THEN "true" ELSE @]
        /\ layoutVer' = IF first THEN repartition(layoutVer) ELSE layoutVer
        /\ picHist' = [picHist EXCEPT !.repartitions = IF first THEN @ + 1 ELSE @]
        /\ data' = [data EXCEPT !.rho = IF first THEN FieldPdf ELSE @,
                                !.created = TRUE]
    /\ nloc' \in Spread(mgr.totalP, mgr.ranks)
    /\ pc' = "pre_run_solve0"
    /\ UNCHANGED <<trace, fsVars, fftVars, scVars, lfVars, plVars, drvVars>>

\* pre_run, lines 136-137: rho = 0 and a first runSolver.
PIC_PreRunSolve0 ==
    /\ pc = "pre_run_solve0"
    /\ \E r \in runSolver(fs) :
        /\ fs' = fs
        /\ fsObs' = [op |-> "runSolver", err |-> r.err, log |-> "none",
                     solve |-> r.solve, barrier |-> r.barrier]
        /\ fsHist' = HistAfterRun(fsHist, fs, r, layoutVer)
        /\ IF r.err = "none"
           THEN /\ pc' = "pre_run_scatter"
                /\ picHist' = picHist
           ELSE /\ pc' = "aborted"
                /\ picHist' = [picHist EXCEPT !.err = r.err]
        /\ data' = solveField([data EXCEPT !.rho = FieldZero], r)
    /\ UNCHANGED <<mgr, layoutVer, nloc, trace, fftVars, scVars, lfVars, plVars, drvVars>>

\* pre_run, line 138: par2grid.
PIC_PreRunPar2Grid ==
    /\ pc = "pre_run_scatter"
    /\ data' = par2grid(data)
    /\ picHist' = [picHist EXCEPT !.scatters = @ + 1,
                                  !.updatesAtFirstScatter =
                                      IF picHist.scatters = 0 THEN picHist.updates ELSE @]
    /\ pc' = "pre_run_solve"
    /\ UNCHANGED <<mgr, layoutVer, nloc, trace, fsVars, fftVars, scVars, lfVars, plVars, drvVars>>

\* pre_run, line 139: runSolver on the scattered density.
PIC_PreRunSolve ==
    /\ pc = "pre_run_solve"
    /\ ManagerRunSolver("pre_run_gather")
    /\ UNCHANGED <<mgr, layoutVer, nloc, trace, fftVars, scVars, lfVars, plVars, drvVars>>

\* pre_run, line 140: grid2par.
PIC_PreRunGrid2Par ==
    /\ pc = "pre_run_gather"
    /\ data' = grid2par(data)
    /\ picHist' = [picHist EXCEPT !.gathers = @ + 1]
    /\ pc' = "loop"
    /\ UNCHANGED <<mgr, layoutVer, nloc, trace, fsVars, fftVars, scVars, lfVars, plVars, drvVars>>

\* Faulty variant: LeapFrogStep without its par2grid.
LeapFrogNext_SkipScatter(phase, balanced) ==
    CASE phase = "kick1" -> "drift"
      [] phase = "drift" -> "update"
      [] phase = "update" -> IF balanced THEN "repartition" ELSE "solve"
      [] phase = "repartition" -> "solve"
      [] phase = "scatter" -> "solve"
      [] phase = "solve" -> "gather"
      [] phase = "gather" -> "kick2"
      [] OTHER -> "post_step"

\* The statements of LeapFrogStep in program order: the phase that follows
\* phase, given what balance() returned.
LeapFrogNext(phase, balanced) ==
    CASE phase = "kick1" -> "drift"
      [] phase = "drift" -> "update"
      [] phase = "update" -> IF balanced THEN "repartition" ELSE "scatter"
      [] phase = "repartition" -> "scatter"
      [] phase = "scatter" -> "solve"
      [] phase = "solve" -> "gather"
      [] phase = "gather" -> "kick2"
      [] OTHER -> "post_step"

\* Faulty variant: advance that enters LeapFrogStep whatever step_method is.
PIC_Advance_AlwaysLeapFrog ==
    /\ pc = "loop"
    /\ picHist.steps < mgr.nt
    /\ pc' = "kick1"
    /\ trace' = <<>>
    /\ UNCHANGED <<mgr, layoutVer, nloc, data, picHist, fsVars, fftVars, scVars, lfVars, plVars, drvVars>>

\* The time loop (BaseManager::run(nt)): pre_step, then advance, which enters
\* LeapFrogStep only when step_method is "LeapFrog".
PIC_Advance ==
    /\ pc = "loop"
    /\ picHist.steps < mgr.nt
    /\ pc' = IF mgr.step_method = "LeapFrog" THEN "kick1" ELSE "post_step"
    /\ trace' = <<>>
    /\ UNCHANGED <<mgr, layoutVer, nloc, data, picHist, fsVars, fftVars, scVars, lfVars, plVars, drvVars>>

\* Lines 240 and 264: P = P - 0.5 * dt * E, with the E the particles hold.
LF_Kick ==
    /\ pc \in {"kick1", "kick2"}
    /\ trace' = Append(trace, "kick")
    /\ pc' = LeapFrogNext(pc, FALSE)
    /\ UNCHANGED <<mgr, layoutVer, nloc, data, picHist, fsVars, fftVars, scVars, lfVars, plVars, drvVars>>

\* Line 243: R = R + dt * P.
LF_Drift ==
    /\ pc = "drift"
    /\ trace' = Append(trace, "drift")
    /\ data' = [data EXCEPT !.R = @ + 1]
    /\ pc' = LeapFrogNext(pc, FALSE)
    /\ UNCHANGED <<mgr, layoutVer, nloc, picHist, fsVars, fftVars, scVars, lfVars, plVars, drvVars>>

\* Lines 246-248: pc->update() sends every particle to the rank that owns its
\* position, then balance(totalP, it + 1) is evaluated.
LF_Update ==
    /\ pc = "update"
    /\ trace' = Append(trace, "update")
    /\ nloc' \in Spread(mgr.totalP, mgr.ranks)
    /\ LET b == balance(mgr.loadbalancer, mgr.totalP, mgr.it + 1, nloc') IN
        /\ picHist' = [picHist EXCEPT !.updates = @ + 1, !.balanced = b,
                                      !.nstep = mgr.it + 1]
        /\ pc' = LeapFrogNext(pc, b)
    /\ UNCHANGED <<mgr, layoutVer, data, fsVars, fftVars, scVars, lfVars, plVars, drvVars>>

\* Lines 249-251: repartition on the layout and mesh of rho.
LF_Repartition ==
    /\ pc = "repartition"
    /\ trace' = Append(trace, "repartition")
    /\ layoutVer' = repartition(layoutVer)
    /\ nloc' \in Spread(mgr.totalP, mgr.ranks)
    /\ picHist' = [picHist EXCEPT !.repartitions = @ + 1]
    /\ pc' = LeapFrogNext(pc, FALSE)
    /\ UNCHANGED <<mgr, data, fsVars, fftVars, scVars, lfVars, plVars, drvVars>>

\* Line 255: par2grid.
LF_Par2Grid ==
    /\ pc = "scatter"
    /\ trace' = Append(trace, "scatter")
    /\ data' = par2grid(data)
    /\ picHist' = [picHist EXCEPT !.scatters = @ + 1,
                                  !.updatesAtFirstScatter =
                                      IF picHist.scatters = 0 THEN picHist.updates ELSE @]
    /\ pc' = LeapFrogNext(pc, FALSE)
    /\ UNCHANGED <<mgr, layoutVer, nloc, fsVars, fftVars, scVars, lfVars, plVars, drvVars>>

\* Line 258: runSolver.
LF_RunSolver ==
    /\ pc = "solve"
    /\ trace' = Append(trace, "solve")
    /\ ManagerRunSolver(LeapFrogNext(pc, FALSE))
    /\ UNCHANGED <<mgr, layoutVer, nloc, fftVars, scVars, lfVars, plVars, drvVars>>

\* Line 261: grid2par.
LF_Grid2Par ==
    /\ pc = "gather"
    /\ trace' = Append(trace, "gather")
    /\ data' = grid2par(data)
    /\ picHist' = [picHist EXCEPT !.gathers = @ + 1]
    /\ pc' = LeapFrogNext(pc, FALSE)
    /\ UNCHANGED <<mgr, layoutVer, nloc, fsVars, fftVars, scVars, lfVars, plVars, drvVars>>

\* Faulty variant: post_step that dumps before it advances the time.
PIC_PostStep_DumpFirst ==
    /\ pc = "post_step"
    /\ mgr' = [mgr EXCEPT !.time_m = @ + 1, !.it = @ + 1]
    /\ picHist' = [picHist EXCEPT !.steps = @ + 1,
                                  !.dumps = Append(@, mgr.time_m)]
    /\ pc' = "loop"
    /\ UNCHANGED <<layoutVer, nloc, data, trace, fsVars, fftVars, scVars, lfVars, plVars, drvVars>>

\* post_step: time_m += dt, it++, dump (dumpLandau writes time_m).  Time is
\* counted in units of dt.
PIC_PostStep ==
    /\ pc = "post_step"
    /\ mgr' = [mgr EXCEPT !.time_m = @ + 1, !.it = @ + 1]
    /\ picHist' = [picHist EXCEPT !.steps = @ + 1,
                                  !.dumps = Append(@, mgr'.time_m)]
    /\ pc' = "loop"
    /\ UNCHANGED <<layoutVer, nloc, data, trace, fsVars, fftVars, scVars, lfVars, plVars, drvVars>>

\* The manager after construction and after the driver has stored its inputs
\* (solver, nt, totalP, lbt, loadbalancethreshold_m, time_m): the constructor
\* sets totalP, nt, lbt, dt and step_method only.
InitPIC ==
    /\ pc = "constructed"
    /\ \E sv \in SolverNames, sm \in StepMethods, t \in Thresholds,
          t0 \in Thresholds, n \in Ranks, steps \in 1..MaxSteps, time \in 0..1 :
        mgr = [solver |-> sv, step_method |-> sm, lbt |-> t,
               loadbalancethreshold_m |-> t0, ranks |-> n, nt |-> steps,
               totalP |-> NumParticles, it |-> 0, time_m |-> time,
               isAllPeriodic |-> FALSE, isFirstRepartition |-> "unset",
               created |-> {}, loadbalancer |-> [threshold |-> 0]]
    /\ layoutVer = 0
    /\ nloc = <<>>
    /\ data = NoData
    /\ trace = <<>>
    /\ picHist = [NoPicHist EXCEPT !.time0 = mgr.time_m]
    /\ FSIdle
    /\ FFTIdle
    /\ ScIdle
    /\ LfIdle
    /\ PlIdle
    /\ DrvIdle

NextPIC ==
    \/ PIC_PreRunSetup
    \/ PIC_PreRunCreate
    \/ PIC_InitializeParticles
    \/ PIC_PreRunSolve0
    \/ PIC_PreRunPar2Grid
    \/ PIC_PreRunSolve
    \/ PIC_PreRunGrid2Par
    \/ PIC_Advance
    \/ LF_Kick
    \/ LF_Drift
    \/ LF_Update
    \/ LF_Repartition
    \/ LF_Par2Grid
    \/ LF_RunSolver
    \/ LF_Grid2Par
    \/ PIC_PostStep

SpecPIC == InitPIC /\ [][NextPIC]_vars


IsPrefix(a, b) == Len(a) <= Len(b) /\ SubSeq(b, 1, Len(a)) = a

StepPlain == <<"kick", "drift", "update", "scatter", "solve", "gather", "kick">>
StepBalanced ==
    <<"kick", "drift", "update", "repartition", "scatter", "solve", "gather", "kick">>

\* C1: a LeapFrogStep performs, in this order and each exactly once,
\* half-kick, drift, update, the repartition only if balance() returned true,
\* scatter, runSolver, gather and the second half-kick: at every moment the
\* phases performed so far are the beginning of that sequence, and a step
\* that has ended has performed all of it.
C1_LeapFrogOrder ==
    /\ pc \in {"kick1", "drift", "update"} => IsPrefix(trace, StepPlain)
    /\ (pc \in {"repartition", "scatter", "solve", "gather", "kick2", "aborted"}
            \/ (pc = "post_step" /\ trace # <<>>))
        => IsPrefix(trace, IF picHist.balanced THEN StepBalanced ELSE StepPlain)
    /\ (pc = "post_step" /\ mgr.step_method = "LeapFrog")
        => trace = (IF picHist.balanced THEN StepBalanced ELSE StepPlain)

C1_Witness ==
    /\ pc = "post_step"
    /\ trace = StepBalanced
    /\ picHist.steps = 1

C15_UpdateOnceBeforeFirstScatter ==
    picHist.scatters >= 1 => picHist.updatesAtFirstScatter = 1

\* C17: with the load balancer's threshold at exactly 1.0 no repartition is
\* ever made, neither the first one of initializeParticles nor one of a
\* LeapFrogStep.
C17_ThresholdOneDisables ==
    mgr.lbt = 10 => picHist.repartitions = 0

C26_OpenRejectedFirst ==
    /\ (mgr.solver = "OPEN" /\ pc \notin {"none", "constructed"})
        => /\ pc = "aborted" /\ picHist.err = "IpplException"
           /\ mgr.created = {}
           /\ ~data.created
           /\ fsHist.calls = 0
    /\ (mgr.solver \notin {"none", "OPEN"}
            /\ pc \notin {"none", "constructed", "pre_run_create"})
        => mgr.created = {"pcontainer", "fcontainer", "fsolver", "loadbalancer"}

C26_Witness ==
    /\ mgr.solver = "OPEN"
    /\ pc = "aborted"
    /\ picHist.err = "IpplException"
    /\ mgr.created = {}
    /\ mgr.isAllPeriodic

\* C28: pre_run sets the step counter to 0 and every post_step adds dt to
\* the time and 1 to the counter before it dumps: after k steps the counter
\* is k, the k-th dump carries the start time plus k * dt, and balance is
\* given k in the k-th step.
C28_StepBookkeeping ==
    /\ pc \notin {"none", "constructed"} => mgr.it = picHist.steps
    /\ pc # "none"
        => /\ Len(picHist.dumps) = picHist.steps
           /\ \A k \in 1..Len(picHist.dumps) :
                picHist.dumps[k] = picHist.time0 + k
    /\ (mgr.step_method = "LeapFrog"
            /\ pc \in {"repartition", "scatter", "solve", "gather", "kick2", "post_step"})
        => picHist.nstep = picHist.steps + 1

C28_Witness ==
    /\ pc = "loop"
    /\ picHist.steps = MaxSteps
    /\ mgr.it = MaxSteps
    /\ picHist.time0 = 1
    /\ picHist.dumps[MaxSteps] = 1 + MaxSteps
    /\ picHist.nstep = MaxSteps

\* C29: advance enters LeapFrogStep exactly when step_method is "LeapFrog";
\* with any other step_method it returns with the particles, the fields, the
\* layout and the solver as they were, and without an error.
C29_AdvanceOnlyLeapFrog ==
    [][pc = "loop" /\ pc' # "loop"
        => IF mgr.step_method = "LeapFrog"
           THEN pc' = "kick1"
           ELSE /\ pc' = "post_step"
                /\ UNCHANGED <<data, nloc, layoutVer, mgr, fsVars, picHist>>]_vars

C29_Witness ==
    /\ pc = "post_step"
    /\ mgr.step_method = "other"
    /\ picHist.steps = 1
    /\ trace = <<>>
    /\ picHist.err = "none"
    /\ data.Ep.set

(***************************************************************************)
(* Charge deposition: TEST_F(PICTest, Scatter) (unit_tests/PIC/PIC.cpp)    *)
(* and scatterCIC (alpine/LandauDampingManager.h)                          *)
(***************************************************************************)

\* Exact arithmetic on fractions num / den, den > 0, kept in lowest terms.
RECURSIVE GCD(_, _)
GCD(a, b) == IF b = 0 THEN a ELSE GCD(b, a % b)

Abs(x) == IF x < 0 THEN -x ELSE x

Rat(n, d) == LET g == GCD(Abs(n), d) IN [num |-> n \div g, den |-> d \div g]

RZero == Rat(0, 1)
RAdd(a, b) == Rat(a.num * b.den + b.num * a.den, a.den * b.den)
RSub(a, b) == Rat(a.num * b.den - b.num * a.den, a.den * b.den)
RMulInt(a, k) == Rat(a.num * k, a.den)
RDivInt(a, k) == Rat(a.num, a.den * k)

RECURSIVE Power(_, _)
Power(b, e) == IF e = 0 THEN 1 ELSE b * Power(b, e - 1)

ScatterAxes == 1..ScatterDim

\* Positions inside the mesh domain [0, N h) on every axis, in units of
\* h / ScatterSub.
ScatterPositions == [ScatterAxes -> 0..(ScatterCells * ScatterSub - 1)]

\* The cells of a field on the mesh: the owned cells 0..N-1 on every axis and
\* one layer of ghost cells around them.
AllCells == [ScatterAxes -> -1..ScatterCells]
Interior(c) == \A d \in ScatterAxes : c[d] >= 0 /\ c[d] < ScatterCells

\* On a periodic layout the ghost cell c is the image of the owned cell
\* Owner(c).
Owner(c) == [d \in ScatterAxes |-> c[d] % ScatterCells]

RECURSIVE RSum(_, _)
RSum(f, S) ==
    IF S = {} THEN RZero
    ELSE LET c == CHOOSE x \in S : TRUE IN RAdd(f[c], RSum(f, S \ {c}))

\* field = 0.0
FieldAssignZero(f) == [c \in AllCells |-> RZero]

\* The CIC weight of node c for a particle at x: the product over the axes of
\* 1 - |x_d / h - c_d| for the enclosing nodes and 0 for every other node, as a
\* numerator over ScatterSub ^ ScatterDim.
RECURSIVE CICWeight(_, _, _)
CICWeight(x, c, d) ==
    IF d = 0 THEN 1
    ELSE LET dist == Abs(x[d] - c[d] * ScatterSub) IN
         (IF dist < ScatterSub THEN ScatterSub - dist ELSE 0) * CICWeight(x, c, d - 1)

\* The halo flush of a periodic layout: every ghost accumulation is added to
\* the owned cell it is the image of.
accumulateHalo(f) ==
    [c \in AllCells |->
        IF Interior(c)
        THEN RSum(f, {g \in AllCells : Owner(g) = c})
        ELSE RZero]

\* scatter(q, field, R): every particle adds q times its weight to each of the
\* nodes enclosing it, ghost cells included; then the halo is flushed.
scatter(q, f, R) ==
    LET deposit(c) ==
            RSum([p \in DOMAIN R |->
                    RDivInt(RMulInt(q, CICWeight(R[p], c, ScatterDim)),
                            Power(ScatterSub, ScatterDim))],
                 DOMAIN R)
    IN accumulateHalo([c \in AllCells |-> RAdd(f[c], deposit(c))])

\* field.sum(): the sum over the owned cells.
FieldSum(f) == RSum(f, {c \in AllCells : Interior(c)})

\* The physical extent of the domain and the volume of a cell (hr = rmax / nr).
DomainSize == Power(ScatterCells * ScatterSpacing, ScatterDim)
CellVolume == Power(ScatterSpacing, ScatterDim)

\* Faulty variant: scatterCIC with the sum taken after the conversion to a
\* density.
scatterCIC_SumOfDensity(rho, R, q, Q, stype) ==
    LET scattered == scatter(q, FieldAssignZero(rho), R)
        density == [c \in AllCells |-> RDivInt(scattered[c], CellVolume)]
        background == RDivInt(Q, DomainSize)
    IN [sum |-> FieldSum(density),
        rho |-> IF stype # "OPEN"
                THEN [c \in AllCells |-> RSub(density[c], background)]
                ELSE density]

\* Faulty variant: scatterCIC with the test on the solver type reversed, so a
\* periodic solver keeps the density without the background.
scatterCIC_BackgroundIfOpen(rho, R, q, Q, stype) ==
    LET scattered == scatter(q, FieldAssignZero(rho), R)
        density == [c \in AllCells |-> RDivInt(scattered[c], CellVolume)]
        background == RDivInt(Q, DomainSize)
    IN [sum |-> FieldSum(scattered),
        rho |-> IF stype = "OPEN"
                THEN [c \in AllCells |-> RSub(density[c], background)]
                ELSE density]

\* Faulty variant: scatterCIC that subtracts the background whatever the
\* solver type is.
scatterCIC_AlwaysBackground(rho, R, q, Q, stype) ==
    LET scattered == scatter(q, FieldAssignZero(rho), R)
        density == [c \in AllCells |-> RDivInt(scattered[c], CellVolume)]
        background == RDivInt(Q, DomainSize)
    IN [sum |-> FieldSum(scattered),
        rho |-> [c \in AllCells |-> RSub(density[c], background)]]

\* Faulty variant: scatterCIC without "rho = 0": the charge is deposited on
\* top of what rho held.
scatterCIC_NoClear(rho, R, q, Q, stype) ==
    LET scattered == scatter(q, rho, R)
        density == [c \in AllCells |-> RDivInt(scattered[c], CellVolume)]
        background == RDivInt(Q, DomainSize)
    IN [sum |-> FieldSum(scattered),
        rho |-> IF stype # "OPEN"
                THEN [c \in AllCells |-> RSub(density[c], background)]
                ELSE density]

\* scatterCIC: rho = 0; scatter(q, rho, R); the sum of rho is taken for the
\* message |Q - sum| / |Q|; rho is divided by the cell volume; unless the
\* solver is "OPEN" the background Q / size is subtracted.
scatterCIC(rho, R, q, Q, stype) ==
    LET scattered == scatter(q, FieldAssignZero(rho), R)
        density == [c \in AllCells |-> RDivInt(scattered[c], CellVolume)]
        background == RDivInt(Q, DomainSize)
    IN [sum |-> FieldSum(scattered),
        rho |-> IF stype # "OPEN"
                THEN [c \in AllCells |-> RSub(density[c], background)]
                ELSE density]

Bunches == [1..ScatterParticles -> ScatterPositions]

\* TEST_F(PICTest, Scatter): the positions are drawn inside the domain, every
\* charge is 0.5, the field is set to zero, scatter is applied and the sum of
\* the field is compared with nParticles * charge.
Sc_TestScatter ==
    /\ scIn.prog = "test"
    /\ scObs.op = "setup"
    /\ \E R \in Bunches :
        LET f == scatter(scIn.q, FieldAssignZero(rhoF), R) IN
        /\ bunchR' = R
        /\ rhoF' = f
        /\ scObs' = [op |-> "test", sum |-> FieldSum(f),
                     expected |-> RMulInt(scIn.q, ScatterParticles), n |-> 1,
                     repeat |-> FALSE, prev |-> [c \in AllCells |-> RZero]]
    /\ UNCHANGED <<scIn, fsVars, fftVars, picVars, lfVars, plVars, drvVars>>

\* The drift of a time step moves the particles (and update() keeps them
\* inside the periodic domain).
Sc_Drift ==
    /\ scIn.prog = "manager"
    /\ scObs.op = "scatterCIC"
    /\ scObs.n < MaxScatters
    /\ bunchR' \in Bunches
    /\ scObs' = [scObs EXCEPT !.op = "drift", !.repeat = FALSE,
                              !.prev = [c \in AllCells |-> RZero]]
    /\ UNCHANGED <<scIn, rhoF, fsVars, fftVars, picVars, lfVars, plVars, drvVars>>

\* par2grid of the manager: scatterCIC on the manager's rho and particles;
\* it may be called again before the particles move.
Sc_ScatterCIC ==
    /\ scIn.prog = "manager"
    /\ \/ scObs.op \in {"setup", "drift"}
       \/ scObs.op = "scatterCIC" /\ ~scObs.repeat
    /\ LET r == scatterCIC(rhoF, bunchR, scIn.q, scIn.Q, scIn.stype) IN
        /\ rhoF' = r.rho
        /\ scObs' = [op |-> "scatterCIC", sum |-> r.sum,
                     expected |-> RMulInt(scIn.q, ScatterParticles),
                     n |-> IF scObs.op = "scatterCIC" THEN scObs.n ELSE scObs.n + 1,
                     repeat |-> (scObs.op = "scatterCIC"),
                     prev |-> IF scObs.op = "scatterCIC" THEN rhoF
                              ELSE [c \in AllCells |-> RZero]]
    /\ UNCHANGED <<scIn, bunchR, fsVars, fftVars, picVars, lfVars, plVars, drvVars>>

\* The unit test's fixture after setup() (a zero field, charge 0.5), or the
\* manager after initializeParticles and rho = 0 (Q = -size, q = Q / totalP).
\* stype_m of the field solver and isAllPeriodic are public members: pre_run
\* leaves a name other than "OPEN" and TRUE, a driver may store any value
\* before it calls par2grid.
InitScatter ==
    /\ \/ /\ scIn = [prog |-> "test", q |-> Rat(1, 2), Q |-> RZero, stype |-> "none",
                     isAllPeriodic |-> TRUE]
          /\ bunchR = [p \in 1..ScatterParticles |-> [d \in ScatterAxes |-> 0]]
       \/ /\ \E st \in {"FFT", "CG", "OPEN"}, periodic \in BOOLEAN :
                scIn = [prog |-> "manager", q |-> Rat(-DomainSize, ScatterParticles),
                        Q |-> Rat(-DomainSize, 1), stype |-> st,
                        isAllPeriodic |-> periodic]
          /\ bunchR \in Bunches
    /\ rhoF = [c \in AllCells |-> RZero]
    /\ scObs = [op |-> "setup", sum |-> RZero, expected |-> RZero, n |-> 0,
                repeat |-> FALSE, prev |-> [c \in AllCells |-> RZero]]
    /\ FSIdle
    /\ FFTIdle
    /\ PICIdle
    /\ LfIdle
    /\ PlIdle
    /\ DrvIdle

NextScatter ==
    \/ Sc_TestScatter
    \/ Sc_Drift
    \/ Sc_ScatterCIC

SpecScatter == InitScatter /\ [][NextScatter]_vars

\* C2: scatter conserves charge: after the field is set to zero and scatter is
\* applied to particles inside the domain, the sum of the field over the
\* owned cells equals the sum of the particle charges, whichever cells the
\* particles are in.
C2_ChargeConserved ==
    scObs.op \in {"test", "scatterCIC"} => scObs.sum = scObs.expected

C2_Witness ==
    /\ scObs.op = "scatterCIC"
    /\ scObs.n = 2
    /\ \E p \in DOMAIN bunchR : \E d \in ScatterAxes :
            bunchR[p][d] = ScatterCells * ScatterSub - 1
    /\ scObs.sum = scIn.Q
    /\ scObs.sum # RZero

\* C16: after scatterCIC with a solver type other than "OPEN" and charges
\* that sum to Q, the sum of rho over the cells of the grid is zero.
C16_ZeroMeanDensity ==
    (scObs.op = "scatterCIC" /\ scIn.stype # "OPEN")
    => FieldSum(rhoF) = RZero

C16_Witness ==
    /\ scObs.op = "scatterCIC"
    /\ scIn.stype = "FFT"
    /\ scObs.sum = scIn.Q
    /\ scIn.Q # RZero
    /\ \E c \in AllCells : Interior(c) /\ rhoF[c] # RZero
    /\ FieldSum(rhoF) = RZero

C22_ScatterIdempotent ==
    (scObs.op = "scatterCIC" /\ scObs.repeat) => rhoF = scObs.prev

C22_Witness ==
    /\ scObs.op = "scatterCIC"
    /\ scObs.repeat
    /\ scObs.n = 2
    /\ rhoF = scObs.prev
    /\ \E c \in AllCells : Interior(c) /\ rhoF[c] # RZero

(***************************************************************************)
(* LeapFrogStep on a frozen field (alpine/LandauDampingManager.h 226-265)   *)
(***************************************************************************)

\* Time steps: even, so that 0.5 * dt * E is exact for an integer E.
LeapDts == {2, 4}

\* A frozen field: one value of E per cell of a periodic axis of LeapCells
\* cells; nothing a step does writes it.
LeapFields == [0..(LeapCells - 1) -> -1..1]

\* pc->P = pc->P - 0.5 * dt_m * pc->E
kick(P, dt, E) == P - ((dt * E) \div 2)

\* pc->R = pc->R + dt_m * pc->P
drift(R, dt, P) == R + dt * P

\* pc->update(): the periodic boundary brings the position back into the
\* domain (the move between ranks does not change R or P).
update(R) == R % LeapCells

\* grid2par with the field frozen: the particle's E is the field's value at
\* its position.
gather(field, R) == field[R]

\* Faulty variant: the step without its second kick.
LeapFrogStep_NoSecondKick(p) ==
    LET P1 == kick(p.P, p.dt, p.E)
        R1 == update(drift(p.R, p.dt, P1))
        E1 == gather(p.field, R1)
    IN [p EXCEPT !.R = R1, !.E = E1, !.P = P1]

\* LeapFrogStep: kick, drift, update, (balance and repartition, which leave R
\* and P alone,) par2grid and runSolver (without effect on a frozen field),
\* grid2par, kick.
LeapFrogStep(p) ==
    LET P1 == kick(p.P, p.dt, p.E)
        R1 == update(drift(p.R, p.dt, P1))
        E1 == gather(p.field, R1)
    IN [p EXCEPT !.R = R1, !.E = E1, !.P = kick(P1, p.dt, E1)]

\* One LeapFrogStep of the run in progress.
Lf_Step ==
    /\ lfObs.phase \in {"forward", "backward"}
    /\ lfObs.n < lfObs.N
    /\ lf' = LeapFrogStep(lf)
    /\ lfObs' = [lfObs EXCEPT !.n = @ + 1,
                              !.kicked = @ \/ lf.E # 0 \/ lf'.E # 0]
    /\ UNCHANGED <<fsVars, fftVars, picVars, scVars, plVars, drvVars>>

\* After the N forward steps the momentum is negated and the run starts over.
Lf_Negate ==
    /\ lfObs.phase = "forward"
    /\ lfObs.n = lfObs.N
    /\ lf' = [lf EXCEPT !.P = -lf.P]
    /\ lfObs' = [lfObs EXCEPT !.phase = "backward", !.n = 0, !.turnR = lf.R]
    /\ UNCHANGED <<fsVars, fftVars, picVars, scVars, plVars, drvVars>>

\* The particle after pre_run: R and P as sampled, E gathered from the field
\* at R (pre_run's grid2par).
InitLeap ==
    /\ \E R \in 0..(LeapCells - 1), P \in -1..1, field \in LeapFields,
          dt \in LeapDts, N \in 1..MaxLeapSteps :
        /\ lf = [R |-> R, P |-> P, E |-> gather(field, R), field |-> field, dt |-> dt]
        /\ lfObs = [phase |-> "forward", n |-> 0, N |-> N, R0 |-> R, P0 |-> P,
                    turnR |-> R, kicked |-> FALSE]
    /\ FSIdle
    /\ FFTIdle
    /\ PICIdle
    /\ ScIdle
    /\ PlIdle
    /\ DrvIdle

NextLeap ==
    \/ Lf_Step
    \/ Lf_Negate

SpecLeap == InitLeap /\ [][NextLeap]_vars

\* C19: on a frozen field, N LeapFrogSteps from (R, P), the negation of P and
\* N more LeapFrogSteps bring R back to the value it started from.
C19_TimeReversible ==
    (lfObs.phase = "backward" /\ lfObs.n = lfObs.N) => lf.R = lfObs.R0

C19_Witness ==
    /\ lfObs.phase = "backward"
    /\ lfObs.N = MaxLeapSteps
    /\ lfObs.n = lfObs.N
    /\ lfObs.kicked
    /\ lfObs.turnR # lfObs.R0
    /\ lfObs.P0 # 0
    /\ lf.R = lfObs.R0
    /\ lf.P = -lfObs.P0

(***************************************************************************)
(* Particle update in a LeapFrogStep (LandauDampingManager.h 239-252)       *)
(***************************************************************************)

\* A field layout on one axis of LeapCells cells: every cell has one owning
\* rank and the cells of a rank are contiguous.
Layouts ==
    {l \in [0..(LeapCells - 1) -> Ranks] :
        \A c \in 0..(LeapCells - 2) : l[c] <= l[c + 1]}

\* Where a drift can take a particle: up to one domain length outside of the
\* domain on either side.
DriftPositions == (-LeapCells)..(2 * LeapCells - 1)

\* The rank whose local domain holds position R.
TargetRank(layout, R) == layout[R]

\* The periodic boundary applied to every particle a rank holds.
applyBC(list) == [i \in DOMAIN list |-> [list[i] EXCEPT !.R = update(list[i].R)]]

\* The particles of a list whose target is rank d, in the list's order: the
\* send buffer for d, or for d the rank itself what stays after compaction.
BufferFor(layout, list, d) ==
    LET Goes(q) == TargetRank(layout, q.R) = d IN SelectSeq(list, Goes)

\* What rank d receives in the all-to-all-v from the ranks 1..r.
RECURSIVE Received(_, _, _, _)
Received(layout, held, d, r) ==
    IF r = 0 THEN <<>>
    ELSE Received(layout, held, d, r - 1)
            \o (IF r = d THEN <<>> ELSE BufferFor(layout, held[r], d))

\* Faulty variant: the particles sent away are not removed from the sender.
particleUpdate_NoCompaction(layout, held) ==
    LET inside == [r \in Ranks |-> applyBC(held[r])] IN
    [d \in Ranks |-> inside[d] \o Received(layout, inside, d, MaxRanks)]

\* Faulty variant: the particles a rank receives are not appended.
particleUpdate_DropReceived(layout, held) ==
    LET inside == [r \in Ranks |-> applyBC(held[r])] IN
    [d \in Ranks |-> BufferFor(layout, inside[d], d)]

\* update(): the boundary condition, then every particle whose R left the
\* local domain goes to its target rank: per-destination buffers, one
\* all-to-all-v, the received particles appended, the holes compacted.
particleUpdate(layout, held) ==
    LET inside == [r \in Ranks |-> applyBC(held[r])] IN
    [d \in Ranks |->
        BufferFor(layout, inside[d], d) \o Received(layout, inside, d, MaxRanks)]

\* The ranks that hold particle id, once per slot that holds it.
Holders(held, id) ==
    {<<r, i>> \in Ranks \X (1..NumParticles) :
        i \in DOMAIN held[r] /\ held[r][i].id = id}

\* The sum of getLocalNum() over the ranks 1..r.
RECURSIVE TotalNum(_, _)
TotalNum(held, r) ==
    IF r = 0 THEN 0 ELSE TotalNum(held, r - 1) + Len(held[r])

\* Lines 239-242: kick and drift; every particle gets a new position, which
\* may be outside of the local and of the global domain.
Up_Drift ==
    /\ plObs.op \in {"created", "update", "repartition"}
    /\ plObs.n < MaxSteps
    /\ \E R \in [1..NumParticles -> DriftPositions] :
        pl' = [pl EXCEPT !.held =
                [r \in Ranks |->
                    [i \in DOMAIN pl.held[r] |->
                        [pl.held[r][i] EXCEPT !.R = R[pl.held[r][i].id]]]]]
    /\ plObs' = [plObs EXCEPT !.op = "drift", !.n = @ + 1]
    /\ UNCHANGED <<fsVars, fftVars, picVars, scVars, lfVars, drvVars>>

\* Line 246: pc->update().
Up_Update ==
    /\ plObs.op = "drift"
    /\ pl' = [pl EXCEPT !.held = particleUpdate(pl.layout, pl.held)]
    /\ plObs' = [plObs EXCEPT
                    !.op = "update",
                    !.moved = {id \in 1..NumParticles :
                                \E h \in Holders(pl.held, id) :
                                    h \notin Holders(pl'.held, id)},
                    !.wrapped = {id \in 1..NumParticles :
                                \E r \in Ranks : \E i \in DOMAIN pl.held[r] :
                                    /\ pl.held[r][i].id = id
                                    /\ pl.held[r][i].R \notin 0..(LeapCells - 1)}]
    /\ UNCHANGED <<fsVars, fftVars, picVars, scVars, lfVars, drvVars>>

\* Lines 248-252: when balance asks for it, repartition publishes a new
\* layout and the particles are redistributed by position.
Up_Repartition ==
    /\ plObs.op = "update"
    /\ \E l \in Layouts :
        pl' = [layout |-> l, held |-> particleUpdate(l, pl.held)]
    /\ plObs' = [plObs EXCEPT !.op = "repartition"]
    /\ UNCHANGED <<fsVars, fftVars, picVars, scVars, lfVars, drvVars>>

\* After pre_run: every rank has created its particles inside its own local
\* domain.
InitUpdate ==
    /\ \E l \in Layouts, R \in [1..NumParticles -> 0..(LeapCells - 1)] :
        pl = [layout |-> l,
              held |-> [r \in Ranks |->
                          LET Mine(q) == l[q.R] = r IN
                          SelectSeq([id \in 1..NumParticles |-> [id |-> id, R |-> R[id]]],
                                    Mine)]]
    /\ plObs = [op |-> "created", n |-> 0, moved |-> {}, wrapped |-> {}]
    /\ FSIdle
    /\ FFTIdle
    /\ PICIdle
    /\ ScIdle
    /\ LfIdle
    /\ DrvIdle

NextUpdate ==
    \/ Up_Drift
    \/ Up_Update
    \/ Up_Repartition

SpecUpdate == InitUpdate /\ [][NextUpdate]_vars

\* C20: after the update() of a LeapFrogStep every particle is held by
\* exactly one rank, and that rank's local domain contains its position.
C20_OwnedByOneRank ==
    plObs.op = "update"
    => \A id \in 1..NumParticles :
        /\ Cardinality(Holders(pl.held, id)) = 1
        /\ \A h \in Holders(pl.held, id) :
            /\ pl.held[h[1]][h[2]].R \in 0..(LeapCells - 1)
            /\ pl.layout[pl.held[h[1]][h[2]].R] = h[1]

C20_Witness ==
    /\ plObs.op = "update"
    /\ plObs.moved # {}
    /\ plObs.wrapped # {}
    /\ \E id \in plObs.moved : id \notin plObs.wrapped
    /\ \A id \in 1..NumParticles : Cardinality(Holders(pl.held, id)) = 1

SizeT(x) == x % SizeModulus

\* Faulty variant: the last rank keeps the quotient as every other rank.
localCount_NoRemainder(NP, comm_size, rank) == SizeT(NP \div comm_size)

\* size_t nloc = NP / comm_size;
\* if (rank == comm_size - 1) { nloc = NP - (comm_size - 1) * nloc; }
localCount(NP, comm_size, rank) ==
    LET quotient == SizeT(NP \div comm_size) IN
    IF rank = comm_size - 1
    THEN SizeT(NP - SizeT((comm_size - 1) * quotient))
    ELSE quotient

\* The particles created by the ranks 0..(r - 1).
RECURSIVE CreatedUpTo(_, _)
CreatedUpTo(created, r) ==
    IF r = 0 THEN 0 ELSE CreatedUpTo(created, r - 1) + created[r - 1]

\* A rank reaches P->create(nloc).
Drv_Create ==
    /\ \E rank \in 0..(drv.comm_size - 1) :
        /\ rank \notin DOMAIN drv.created
        /\ drv' = [drv EXCEPT !.created =
                    [r \in DOMAIN drv.created \cup {rank} |->
                        IF r = rank THEN localCount(drv.NP, drv.comm_size, rank)
                        ELSE drv.created[r]]]
    /\ UNCHANGED <<fsVars, fftVars, picVars, scVars, lfVars, plVars>>

\* The driver after it has read NP from the command line, on comm_size ranks.
InitSplit ==
    /\ \E NP \in 0..(SizeModulus - 1), comm_size \in 1..MaxCommSize :
        drv = [NP |-> NP, comm_size |-> comm_size, created |-> <<>>]
    /\ FSIdle
    /\ FFTIdle
    /\ PICIdle
    /\ ScIdle
    /\ LfIdle
    /\ PlIdle

NextSplit == Drv_Create

SpecSplit == InitSplit /\ [][NextSplit]_vars

\* C30: every rank but the last creates floor(NP / size) particles, the last
\* one NP - (size - 1) * floor(NP / size); no count is negative and the
\* counts of all the ranks sum to NP.
C30_InitialSplit ==
    "comm_size" \in DOMAIN drv
    => /\ \A r \in DOMAIN drv.created :
            /\ drv.created[r] >= 0
            /\ r # drv.comm_size - 1 => drv.created[r] = drv.NP \div drv.comm_size
            /\ r = drv.comm_size - 1
                => drv.created[r]
                    = drv.NP - (drv.comm_size - 1) * (drv.NP \div drv.comm_size)
       /\ DOMAIN drv.created = 0..(drv.comm_size - 1)
            => CreatedUpTo(drv.created, drv.comm_size) = drv.NP

C30_Witness ==
    /\ "comm_size" \in DOMAIN drv
    /\ drv.comm_size = MaxCommSize
    /\ DOMAIN drv.created = 0..(drv.comm_size - 1)
    /\ drv.NP % drv.comm_size # 0
    /\ drv.created[drv.comm_size - 1] > drv.created[0]
    /\ CreatedUpTo(drv.created, drv.comm_size) = drv.NP

====
